---- MODULE Spec2Model ----
(***************************************************************************)
(* A model of the task reward application: the App component's planning    *)
(* and completed task collections, their two localStorage records, the     *)
(* reminder timers armed through window.setTimeout and the notification    *)
(* permission handshake of NotificationService.                            *)
(*                                                                         *)
(* Time is a millisecond clock advanced in steps of TickMs.  One action    *)
(* is one event handler run to completion together with the render and    *)
(* the effects it triggers (persist effects, restore-reminders effect).    *)
(***************************************************************************)
EXTENDS Integers, Sequences, FiniteSets, TLC

VARIABLES
    now,                        \* Date.now(), milliseconds
    devBuild,                   \* TRUE: development build, React.StrictMode re-runs mount effects
    supported,                  \* NotificationService.isSupported()
    permission,                 \* Notification.permission
    permissionRequested,        \* NotificationService.permissionRequested
    tasks,                      \* App state: completed tasks
    planningTasks,              \* App state: planning tasks
    showNotificationPrompt,     \* App state
    pendingTaskForNotification, \* App state: a name, or None
    storedTasks,                \* localStorage 'tasks': None (null) or Some(text)
    storedPlanning,             \* localStorage 'planningTasks': None (null) or Some(text)
    timers,                     \* live window.setTimeout timers of this page: handle -> timer
    nextHandle,                 \* the handle the next window.setTimeout returns
    nextId,                     \* stands for generateId(): the next fresh id
    pendingAdds,                \* handleAddPlanningTask calls awaiting the browser's decision
    shown,                      \* reminder notifications displayed by this page
    deletedIds                  \* history: ids handleDeletePlanningTask removed

vars == <<now, devBuild, supported, permission, permissionRequested, tasks,
          planningTasks, showNotificationPrompt, pendingTaskForNotification,
          storedTasks, storedPlanning, timers, nextHandle, nextId,
          pendingAdds, shown, deletedIds>>

(* ------------------------------ bounds --------------------------------- *)
MaxIds == 3        \* generateId() hands out ids up to MaxIds
MaxTicks == 3      \* the clock stops at MaxTicks * TickMs
MaxHandle == 4     \* handlers that arm a timer are enabled while nextHandle <= MaxHandle
MaxPending == 2    \* handleAddPlanningTask calls waiting for the browser at once

TickMs == 30 * 60 * 1000

(* ------------------------- optional values ----------------------------- *)
\* undefined / null is the empty sequence, a present value x is <<x>>
None == <<>>
Some(x) == <<x>>

\* a timeoutId of 0 stands for "undefined": the code only tests its truthiness
NoHandle == 0

Priorities == {"high", "medium", "low"}
\* the columns a task is dropped on
PriorityInputs == {"high", "low"}
Names == {"a"}

(* ------------------------- reminder delays ----------------------------- *)
\* JavaScript truthiness of an optional number (x || 30)
Truthy(cm) == cm # None /\ cm[1] # 0

\* the switch of scheduleReminder: Some(delayMs), or None for "return undefined"
scheduleReminderDelayMs(r) ==
    CASE r.option = "1hr" -> Some(60 * 60 * 1000)
      [] r.option = "2hr" -> Some(2 * 60 * 60 * 1000)
      [] r.option = "custom" ->
            Some((IF Truthy(r.customMinutes) THEN r.customMinutes[1] ELSE 30) * 60 * 1000)
      [] OTHER -> None

\* the switch of the restore-reminders effect: Some(totalDelayMs), or None for "return"
restoreTotalDelayMs(r) ==
    CASE r.option = "1hr" -> Some(60 * 60 * 1000)
      [] r.option = "2hr" -> Some(2 * 60 * 60 * 1000)
      [] r.option = "custom" ->
            Some((IF Truthy(r.customMinutes) THEN r.customMinutes[1] ELSE 30) * 60 * 1000)
      [] OTHER -> None

SnoozeDelayMs == 15 * 60 * 1000

(* --------------------------- serialization ----------------------------- *)
\* the time value of an Invalid Date (NaN)
InvalidDate == -1

\* Date.prototype.toJSON: an ISO-8601 string with millisecond precision, null
\* for an Invalid Date
DateToISO(ms) == IF ms = InvalidDate THEN [null |-> TRUE] ELSE [iso |-> ms]
\* new Date(value).getTime(): the instant of an ISO string, 0 for null, NaN
\* for any other text
ParseDate(s) ==
    IF "iso" \in DOMAIN s THEN s.iso
    ELSE IF "null" \in DOMAIN s THEN 0
    ELSE InvalidDate

\* a JSON text holding an array of records
ArrayText(items) == [json |-> "array", items |-> items]

\* JSON.stringify(planningTasks): every own property is written, the Date as text
StringifyPlanning(pt) ==
    ArrayText([i \in 1..Len(pt) |->
        [id |-> pt[i].id, name |-> pt[i].name, priority |-> pt[i].priority,
         createdAt |-> DateToISO(pt[i].createdAt), reminder |-> pt[i].reminder]])

\* JSON.parse(storedPlanning).map(t => ({...t, createdAt: new Date(t.createdAt)}))
ParsePlanning(text) ==
    [i \in 1..Len(text.items) |->
        [id |-> text.items[i].id, name |-> text.items[i].name,
         priority |-> text.items[i].priority,
         createdAt |-> ParseDate(text.items[i].createdAt),
         reminder |-> text.items[i].reminder]]

\* JSON.stringify(tasks)
StringifyTasks(ts) ==
    ArrayText([i \in 1..Len(ts) |->
        [id |-> ts[i].id, name |-> ts[i].name,
         timestamp |-> DateToISO(ts[i].timestamp), points |-> ts[i].points]])

\* JSON.parse(stored).map(t => ({...t, timestamp: new Date(t.timestamp)}))
ParseTasks(text) ==
    [i \in 1..Len(text.items) |->
        [id |-> text.items[i].id, name |-> text.items[i].name,
         timestamp |-> ParseDate(text.items[i].timestamp),
         points |-> text.items[i].points]]

\* the try block of the load effect throws: JSON.parse rejects the text, or the
\* parsed value has no map method
LoadThrows(text) == text.json # "array"

(* ------------------------------ helpers -------------------------------- *)
PlanningIds(pt) == {pt[i].id : i \in 1..Len(pt)}

HasTask(pt, id) == \E i \in 1..Len(pt) : pt[i].id = id

\* Array.prototype.find: the first task with this id
FindTask(pt, id) == pt[CHOOSE i \in 1..Len(pt) : pt[i].id = id /\ \A j \in 1..(i-1) : pt[j].id # id]

\* Array.prototype.filter(task => task.id !== taskId)
RECURSIVE FilterOut(_, _)
FilterOut(pt, id) ==
    IF pt = <<>> THEN <<>>
    ELSE IF Head(pt).id = id THEN FilterOut(Tail(pt), id)
         ELSE <<Head(pt)>> \o FilterOut(Tail(pt), id)

\* prev.map(t => t.id === id && t.reminder ? {...t, reminder: {...t.reminder, timeoutId}} : t)
recordTimeoutId(pt, id, h) ==
    [i \in 1..Len(pt) |->
        IF pt[i].id = id /\ pt[i].reminder # None
        THEN [pt[i] EXCEPT !.reminder = Some([pt[i].reminder[1] EXCEPT !.timeoutId = h])]
        ELSE pt[i]]

\* window.setTimeout(callback, delay): the timer table with the new timer
setTimeout(tm, h, task, delay, src, t) ==
    [x \in DOMAIN tm \cup {h} |->
        IF x = h
        THEN [taskId |-> task.id, name |-> task.name, armedAt |-> t,
              delay |-> delay, src |-> src]
        ELSE tm[x]]

\* clearTimeout(h): cancels whatever timer of this page has the handle
clearTimeout(tm, h) == [x \in DOMAIN tm \ {h} |-> tm[x]]

\* the moment a timer is due; a negative delay counts as 0
DueAt(tmr) == tmr.armedAt + (IF tmr.delay > 0 THEN tmr.delay ELSE 0)

(* ------------------------------ effects -------------------------------- *)
\* restoreOne without the "remaining > 0" test: a missed reminder is armed too
restoreOneCatchUp(task, st, t) ==
    IF task.reminder # None /\ task.reminder[1].enabled
       /\ task.reminder[1].timeoutId = NoHandle
    THEN LET total == restoreTotalDelayMs(task.reminder[1]) IN
         IF total = None THEN st
         ELSE LET remaining == total[1] - (t - task.createdAt) IN
              [pt |-> recordTimeoutId(st.pt, task.id, st.nh),
               tm |-> setTimeout(st.tm, st.nh, task, remaining, "restore", t),
               nh |-> st.nh + 1]
    ELSE st

\* one iteration of the restore-reminders effect's forEach; st is the state the
\* queued setPlanningTasks updaters and the timer table have reached so far
restoreOne(task, st, t) ==
    IF task.reminder # None /\ task.reminder[1].enabled
       /\ task.reminder[1].timeoutId = NoHandle
    THEN LET total == restoreTotalDelayMs(task.reminder[1]) IN
         IF total = None THEN st
         ELSE LET remaining == total[1] - (t - task.createdAt) IN
              IF remaining > 0
              THEN [pt |-> recordTimeoutId(st.pt, task.id, st.nh),
                    tm |-> setTimeout(st.tm, st.nh, task, remaining, "restore", t),
                    nh |-> st.nh + 1]
              ELSE st
    ELSE st

\* restoreLoop leaving the forEach at the first reminder whose option the
\* switch does not know
RECURSIVE restoreLoopAbort(_, _, _, _)
restoreLoopAbort(snapshot, i, st, t) ==
    IF i > Len(snapshot) THEN st
    ELSE IF snapshot[i].reminder # None
            /\ restoreTotalDelayMs(snapshot[i].reminder[1]) = None
         THEN st
         ELSE restoreLoopAbort(snapshot, i + 1, restoreOne(snapshot[i], st, t), t)

RECURSIVE restoreLoop(_, _, _, _)
restoreLoop(snapshot, i, st, t) ==
    IF i > Len(snapshot) THEN st
    ELSE restoreLoop(snapshot, i + 1, restoreOne(snapshot[i], st, t), t)

\* the restore-reminders effect: planningTasks.forEach over the rendered collection
restoreReminders(st, t) == restoreLoop(st.pt, 1, st, t)

\* a render after planningTasks changed: the restore effect runs only when the
\* length differs from the previous render's (dependency [planningTasks.length])
render(oldLen, st, t) ==
    IF Len(st.pt) # oldLen THEN restoreReminders(st, t) ELSE st

(* ------------------------------- mount --------------------------------- *)
\* the value the load effect passes to setPlanningTasks, as a queue of updates
loadPlanningUpdates(stored) ==
    IF stored # None /\ ~LoadThrows(stored[1])
    THEN <<ParsePlanning(stored[1])>> ELSE <<>>

loadTasksUpdates(stored) ==
    IF stored # None /\ ~LoadThrows(stored[1])
    THEN <<ParseTasks(stored[1])>> ELSE <<>>

LastOr(updates, initial) ==
    IF updates = <<>> THEN initial ELSE updates[Len(updates)]

\* mountApp without the persist run that follows the restore effect's
\* handle-recording updates
mountAppEarly(sp, stt, t, dev) ==
    LET persistedP == Some(StringifyPlanning(<<>>))
        persistedT == Some(StringifyTasks(<<>>))
        updatesP == loadPlanningUpdates(sp)
                    \o (IF dev THEN loadPlanningUpdates(persistedP) ELSE <<>>)
        updatesT == loadTasksUpdates(stt)
                    \o (IF dev THEN loadTasksUpdates(persistedT) ELSE <<>>)
        loadedP == LastOr(updatesP, <<>>)
        loadedT == LastOr(updatesT, <<>>)
        r == render(0, [pt |-> loadedP, tm |-> <<>>, nh |-> 1], t)
    IN [planningTasks |-> r.pt, tasks |-> loadedT, timers |-> r.tm,
        nextHandle |-> r.nh,
        storedPlanning |-> Some(StringifyPlanning(loadedP)),
        storedTasks |-> Some(StringifyTasks(loadedT))]

\* Mounting App: the load effect reads both records, the persist effects write
\* the still empty state; under React.StrictMode in a development build all
\* mount effects run a second time before the queued updates are rendered, so
\* the second load reads what the first persist wrote.
mountApp(sp, stt, t, dev) ==
    LET persistedP == Some(StringifyPlanning(<<>>))
        persistedT == Some(StringifyTasks(<<>>))
        updatesP == loadPlanningUpdates(sp)
                    \o (IF dev THEN loadPlanningUpdates(persistedP) ELSE <<>>)
        updatesT == loadTasksUpdates(stt)
                    \o (IF dev THEN loadTasksUpdates(persistedT) ELSE <<>>)
        loadedP == LastOr(updatesP, <<>>)
        loadedT == LastOr(updatesT, <<>>)
        r == render(0, [pt |-> loadedP, tm |-> <<>>, nh |-> 1], t)
    IN [planningTasks |-> r.pt, tasks |-> loadedT, timers |-> r.tm,
        nextHandle |-> r.nh,
        storedPlanning |-> Some(StringifyPlanning(r.pt)),
        storedTasks |-> Some(StringifyTasks(loadedT))]

(* ---------------------- what storage holds at first ------------------- *)
StoredReminder(opt, cm) ==
    Some([enabled |-> TRUE, option |-> opt, customMinutes |-> cm, timeoutId |-> NoHandle])

StoredTask(id, name, r) ==
    [id |-> id, name |-> name, priority |-> "low", createdAt |-> DateToISO(0),
     reminder |-> r]

\* the 'planningTasks' record found by the first mount: absent, or tasks created
\* at time 0 whose reminders carry no handle
InitialStorage ==
    { None,
      Some(ArrayText(<<StoredTask(1, "a", StoredReminder("1hr", None))>>)),
      Some(ArrayText(<<StoredTask(1, "a", StoredReminder("custom", None))>>)),
      Some(ArrayText(<<StoredTask(1, "a", StoredReminder("weekly", None)),
                       StoredTask(2, "b", StoredReminder("2hr", None))>>)) }

\* the ids the stored tasks carry are taken; id 1 is never handed out
LastStoredId(sp) ==
    IF sp = None \/ LoadThrows(sp[1]) \/ sp[1].items = <<>> THEN 1
    ELSE sp[1].items[Len(sp[1].items)].id

Init ==
    \E sp \in InitialStorage, dev \in BOOLEAN, sup \in BOOLEAN,
       perm \in {"default", "granted", "denied"} :
        LET m == mountApp(sp, None, TickMs, dev) IN
        /\ sup \/ perm = "default"
        /\ now = TickMs
        /\ devBuild = dev
        /\ supported = sup
        /\ permission = perm
        /\ permissionRequested = FALSE
        /\ tasks = m.tasks
        /\ planningTasks = m.planningTasks
        /\ showNotificationPrompt = FALSE
        /\ pendingTaskForNotification = None
        /\ storedTasks = m.storedTasks
        /\ storedPlanning = m.storedPlanning
        /\ timers = m.timers
        /\ nextHandle = m.nextHandle
        /\ nextId = LastStoredId(sp) + 1
        /\ pendingAdds = <<>>
        /\ shown = {}
        /\ deletedIds = {}

(* -------------------------- permission --------------------------------- *)
\* requestPermission without the custom-prompt-first step: an undecided
\* permission goes straight to the browser
requestPermissionAsksFirst ==
    IF ~supported
    THEN [kind |-> "done", granted |-> FALSE, showCustomPrompt |-> FALSE,
          requested |-> permissionRequested]
    ELSE IF permission = "granted"
    THEN [kind |-> "done", granted |-> TRUE, showCustomPrompt |-> FALSE,
          requested |-> permissionRequested]
    ELSE IF permission = "denied"
    THEN [kind |-> "done", granted |-> FALSE, showCustomPrompt |-> TRUE,
          requested |-> permissionRequested]
    ELSE [kind |-> "ask", granted |-> FALSE, showCustomPrompt |-> FALSE,
          requested |-> TRUE]

\* NotificationService.requestPermission up to the point where it either
\* returns or awaits the browser: kind "done" carries the result, kind "ask"
\* means Notification.requestPermission() was called
requestPermission ==
    IF ~supported
    THEN [kind |-> "done", granted |-> FALSE, showCustomPrompt |-> FALSE,
          requested |-> permissionRequested]
    ELSE IF permission = "granted"
    THEN [kind |-> "done", granted |-> TRUE, showCustomPrompt |-> FALSE,
          requested |-> permissionRequested]
    ELSE IF permission = "denied"
    THEN [kind |-> "done", granted |-> FALSE, showCustomPrompt |-> TRUE,
          requested |-> permissionRequested]
    ELSE IF ~permissionRequested
    THEN [kind |-> "done", granted |-> FALSE, showCustomPrompt |-> TRUE,
          requested |-> TRUE]
    ELSE [kind |-> "ask", granted |-> FALSE, showCustomPrompt |-> FALSE,
          requested |-> permissionRequested]

\* what the browser can answer; "error" is Notification.requestPermission() rejecting
BrowserAnswers == {"granted", "denied", "default", "error"}

\* the result requestPermission builds from the browser's answer
browserResult(answer) ==
    IF answer = "error"
    THEN [granted |-> FALSE, showCustomPrompt |-> TRUE]
    ELSE [granted |-> answer = "granted", showCustomPrompt |-> answer = "denied"]

(* ---------------------------- planning tasks --------------------------- *)
\* the reminders handleAddPlanningTask is called with: none, one the planning
\* form submits, and two its TaskReminder parameter admits although the form's
\* controls do not produce them: negative customMinutes, and an option the
\* switch statements do not know
Reminder(opt, cm) ==
    Some([enabled |-> TRUE, option |-> opt, customMinutes |-> cm, timeoutId |-> NoHandle])

ReminderInputs ==
    { None, Reminder("1hr", None), Reminder("custom", Some(-15)),
      Reminder("weekly", None) }

\* a planning update committed by a handler: render, effects, persist
CommitPlanning(pt, tm, nh) ==
    LET r == render(Len(planningTasks), [pt |-> pt, tm |-> tm, nh |-> nh], now) IN
    /\ planningTasks' = r.pt
    /\ timers' = r.tm
    /\ nextHandle' = r.nh
    /\ storedPlanning' = Some(StringifyPlanning(r.pt))

\* disableReminder forgetting to clear the flag
disableReminderKept(task) == task

disableReminder(task) ==
    IF task.reminder # None
    THEN [task EXCEPT !.reminder = Some([task.reminder[1] EXCEPT !.enabled = FALSE])]
    ELSE task

\* handleAddPlanningTask from the permission result on: schedule or disable the
\* reminder, then append with the functional updater
finishAddPlanningTask(newPlanningTask, result) ==
    IF result.granted
    THEN LET delayMs == scheduleReminderDelayMs(newPlanningTask.reminder[1])
             armed == newPlanningTask.reminder[1].enabled /\ delayMs # None
             stored == IF armed
                       THEN [newPlanningTask EXCEPT !.reminder =
                                Some([newPlanningTask.reminder[1] EXCEPT !.timeoutId = nextHandle])]
                       ELSE newPlanningTask
         IN /\ CommitPlanning(Append(planningTasks, stored),
                              IF armed
                              THEN setTimeout(timers, nextHandle, newPlanningTask,
                                              delayMs[1], "create", now)
                              ELSE timers,
                              IF armed THEN nextHandle + 1 ELSE nextHandle)
            /\ UNCHANGED <<showNotificationPrompt, pendingTaskForNotification>>
    ELSE IF result.showCustomPrompt
    THEN /\ pendingTaskForNotification' = Some(newPlanningTask.name)
         /\ showNotificationPrompt' = TRUE
         /\ CommitPlanning(Append(planningTasks, disableReminder(newPlanningTask)),
                           timers, nextHandle)
    ELSE /\ CommitPlanning(Append(planningTasks, disableReminder(newPlanningTask)),
                           timers, nextHandle)
         /\ UNCHANGED <<showNotificationPrompt, pendingTaskForNotification>>

\* handleAddPlanningTask(name, reminder)
handleAddPlanningTask(name, reminder) ==
    LET newPlanningTask == [id |-> nextId, name |-> name, priority |-> "low",
                            createdAt |-> now, reminder |-> reminder]
        res == requestPermission
    IN
    /\ nextId <= MaxIds
    /\ nextHandle <= MaxHandle
    /\ nextId' = nextId + 1
    /\ IF reminder = None \/ ~reminder[1].enabled
       THEN /\ CommitPlanning(Append(planningTasks, newPlanningTask), timers, nextHandle)
            /\ UNCHANGED <<permissionRequested, pendingAdds, showNotificationPrompt,
                           pendingTaskForNotification>>
       ELSE IF res.kind = "done"
       THEN /\ permissionRequested' = res.requested
            /\ finishAddPlanningTask(newPlanningTask, res)
            /\ UNCHANGED pendingAdds
       ELSE /\ Len(pendingAdds) < MaxPending
            /\ pendingAdds' = Append(pendingAdds, newPlanningTask)
            /\ UNCHANGED <<permissionRequested, planningTasks, timers, nextHandle,
                           storedPlanning, showNotificationPrompt,
                           pendingTaskForNotification>>
    /\ UNCHANGED <<now, devBuild, supported, permission, tasks, storedTasks, shown,
                   deletedIds>>

\* resumeAddPlanningTask stamping the task when the browser has answered
resumeAddPlanningTaskLate(answer) ==
    /\ pendingAdds # <<>>
    /\ permission = "default" \/ answer = permission
    /\ permission' = IF answer = "error" THEN permission ELSE answer
    /\ pendingAdds' = Tail(pendingAdds)
    /\ finishAddPlanningTask([Head(pendingAdds) EXCEPT !.createdAt = now],
                             browserResult(answer))
    /\ UNCHANGED <<now, devBuild, supported, permissionRequested, tasks, storedTasks,
                   nextId, shown, deletedIds>>

\* resumeAddPlanningTask leaving the call among the waiting ones
resumeAddPlanningTaskKept(answer) ==
    /\ pendingAdds # <<>>
    /\ permission = "default" \/ answer = permission
    /\ permission' = IF answer = "error" THEN permission ELSE answer
    /\ pendingAdds' = pendingAdds
    /\ finishAddPlanningTask(Head(pendingAdds), browserResult(answer))
    /\ UNCHANGED <<now, devBuild, supported, permissionRequested, tasks, storedTasks,
                   nextId, shown, deletedIds>>

\* the browser answers the oldest pending Notification.requestPermission() and
\* handleAddPlanningTask resumes after its await
resumeAddPlanningTask(answer) ==
    /\ pendingAdds # <<>>
    /\ permission = "default" \/ answer = permission
    /\ permission' = IF answer = "error" THEN permission ELSE answer
    /\ pendingAdds' = Tail(pendingAdds)
    /\ finishAddPlanningTask(Head(pendingAdds), browserResult(answer))
    /\ UNCHANGED <<now, devBuild, supported, permissionRequested, tasks, storedTasks,
                   nextId, shown, deletedIds>>

\* updatePriority as remove-and-append: the re-prioritized task moves to the end
updatePriorityMoved(prev, taskId, newPriority) ==
    IF HasTask(prev, taskId)
    THEN Append(FilterOut(prev, taskId),
                [FindTask(prev, taskId) EXCEPT !.priority = newPriority])
    ELSE prev

\* handleUpdatePlanningTaskPriority's updater
updatePriority(prev, taskId, newPriority) ==
    [i \in 1..Len(prev) |->
        IF prev[i].id = taskId THEN [prev[i] EXCEPT !.priority = newPriority]
        ELSE prev[i]]

\* handleUpdatePlanningTaskPriority(taskId, newPriority)
handleUpdatePlanningTaskPriority(taskId, newPriority) ==
    /\ CommitPlanning(updatePriority(planningTasks, taskId, newPriority), timers, nextHandle)
    /\ UNCHANGED <<now, devBuild, supported, permission, permissionRequested, tasks,
                   showNotificationPrompt, pendingTaskForNotification, storedTasks,
                   nextId, pendingAdds, shown, deletedIds>>

\* deleteTimers without the clearTimeout call
deleteTimersKept(prev, tm, taskId) == tm

\* the timer table after handleDeletePlanningTask's updater looked at prev
deleteTimers(prev, tm, taskId) ==
    IF HasTask(prev, taskId) /\ FindTask(prev, taskId).reminder # None
       /\ FindTask(prev, taskId).reminder[1].timeoutId # NoHandle
    THEN clearTimeout(tm, FindTask(prev, taskId).reminder[1].timeoutId)
    ELSE tm

\* handleDeletePlanningTask(taskId)
handleDeletePlanningTask(taskId) ==
    /\ CommitPlanning(FilterOut(planningTasks, taskId),
                      deleteTimers(planningTasks, timers, taskId), nextHandle)
    /\ deletedIds' = IF HasTask(planningTasks, taskId)
                     THEN deletedIds \cup {taskId} ELSE deletedIds
    /\ UNCHANGED <<now, devBuild, supported, permission, permissionRequested, tasks,
                   showNotificationPrompt, pendingTaskForNotification, storedTasks,
                   nextId, pendingAdds, shown>>

(* --------------------------- completed tasks --------------------------- *)
PointsInputs == {None, Some(5)}

\* NotificationService.showNotification: TRUE when a notification is created
\* (it then also arms its own 8 second auto-close timer)
showsNotification == permission = "granted"

\* addTask putting the new record first
addTaskFirst(prev, id, name, points, t) ==
    <<[id |-> id, name |-> name, timestamp |-> t, points |-> points]>> \o prev

\* handleAddTask's state change: the appended collection
addTask(prev, id, name, points, t) ==
    Append(prev, [id |-> id, name |-> name, timestamp |-> t, points |-> points])

\* the handle counter after handleAddTask's celebration notification
handleAfterAddTask(points, nh) ==
    IF Truthy(points) /\ showsNotification THEN nh + 1 ELSE nh

\* handleAddTask(name, points)
handleAddTask(name, points) ==
    /\ nextId <= MaxIds
    /\ nextId' = nextId + 1
    /\ tasks' = addTask(tasks, nextId, name, points, now)
    /\ storedTasks' = Some(StringifyTasks(tasks'))
    /\ nextHandle' = handleAfterAddTask(points, nextHandle)
    /\ UNCHANGED <<now, devBuild, supported, permission, permissionRequested,
                   planningTasks, showNotificationPrompt, pendingTaskForNotification,
                   storedPlanning, timers, pendingAdds, shown, deletedIds>>

(* ------------------------------ timers --------------------------------- *)
\* a due reminder timer runs its callback: NotificationService.showTaskReminder
timerFires(h) ==
    /\ h \in DOMAIN timers
    /\ DueAt(timers[h]) <= now
    /\ timers' = clearTimeout(timers, h)
    /\ shown' = IF showsNotification
                THEN shown \cup {[taskId |-> timers[h].taskId, taskName |-> timers[h].name]}
                ELSE shown
    /\ nextHandle' = IF showsNotification THEN nextHandle + 1 ELSE nextHandle
    /\ UNCHANGED <<now, devBuild, supported, permission, permissionRequested, tasks,
                   planningTasks, showNotificationPrompt, pendingTaskForNotification,
                   storedTasks, storedPlanning, nextId, pendingAdds, deletedIds>>

(* ----------------------- notification events --------------------------- *)
\* handleTaskComplete, the 'notificationTaskComplete' listener; n is the data
\* of a reminder notification this page has shown
handleTaskComplete(n) ==
    /\ n \in shown
    /\ IF HasTask(planningTasks, n.taskId)
       THEN /\ nextId <= MaxIds
            /\ nextId' = nextId + 1
            /\ tasks' = addTask(tasks, nextId, n.taskName, Some(10), now)
            /\ storedTasks' = Some(StringifyTasks(tasks'))
            /\ CommitPlanning(FilterOut(planningTasks, n.taskId),
                              deleteTimers(planningTasks, timers, n.taskId),
                              handleAfterAddTask(Some(10), nextHandle))
            /\ deletedIds' = deletedIds \cup {n.taskId}
       ELSE UNCHANGED <<nextId, tasks, storedTasks, planningTasks, timers, nextHandle,
                        storedPlanning, deletedIds>>
    /\ UNCHANGED <<now, devBuild, supported, permission, permissionRequested,
                   showNotificationPrompt, pendingTaskForNotification, pendingAdds,
                   shown>>

\* handleSnooze, the 'notificationSnooze' listener
handleSnooze(n) ==
    /\ n \in shown
    /\ nextHandle <= MaxHandle
    /\ IF HasTask(planningTasks, n.taskId) /\ FindTask(planningTasks, n.taskId).reminder # None
       THEN CommitPlanning(recordTimeoutId(planningTasks, n.taskId, nextHandle),
                           setTimeout(timers, nextHandle, FindTask(planningTasks, n.taskId),
                                      SnoozeDelayMs, "snooze", now),
                           nextHandle + 1)
       ELSE UNCHANGED <<planningTasks, timers, nextHandle, storedPlanning>>
    /\ UNCHANGED <<now, devBuild, supported, permission, permissionRequested, tasks,
                   showNotificationPrompt, pendingTaskForNotification, storedTasks,
                   nextId, pendingAdds, shown, deletedIds>>

(* ------------------------------ the rest ------------------------------- *)
\* onClose of NotificationPermissionPrompt
closePrompt ==
    /\ showNotificationPrompt
    /\ showNotificationPrompt' = FALSE
    /\ pendingTaskForNotification' = None
    /\ UNCHANGED <<now, devBuild, supported, permission, permissionRequested, tasks,
                   planningTasks, storedTasks, storedPlanning, timers, nextHandle,
                   nextId, pendingAdds, shown, deletedIds>>

\* handleEnableNotifications of NotificationPermissionPrompt: requestPermission,
\* with the browser's answer when it asks; granted runs onPermissionGranted
\* (which only logs) and onClose, anything else changes the prompt's own view
handleEnableNotifications(answer) ==
    LET res == requestPermission
        result == IF res.kind = "done" THEN res ELSE browserResult(answer)
    IN
    /\ showNotificationPrompt
    /\ permission = "default" \/ answer = permission
    /\ permissionRequested' = res.requested
    /\ permission' = IF res.kind = "ask" /\ answer # "error" THEN answer ELSE permission
    /\ IF result.granted
       THEN /\ showNotificationPrompt' = FALSE
            /\ pendingTaskForNotification' = None
       ELSE UNCHANGED <<showNotificationPrompt, pendingTaskForNotification>>
    /\ UNCHANGED <<now, devBuild, supported, tasks, planningTasks, storedTasks,
                   storedPlanning, timers, nextHandle, nextId, pendingAdds, shown,
                   deletedIds>>

\* the clock moves on once every due timer has run
advance ==
    /\ now + TickMs <= MaxTicks * TickMs
    /\ \A h \in DOMAIN timers : DueAt(timers[h]) > now
    /\ now' = now + TickMs
    /\ UNCHANGED <<devBuild, supported, permission, permissionRequested, tasks,
                   planningTasks, showNotificationPrompt, pendingTaskForNotification,
                   storedTasks, storedPlanning, timers, nextHandle, nextId,
                   pendingAdds, shown, deletedIds>>

\* the page is reloaded: timers, pending calls, component and service state
\* are gone, storage stays, App mounts again
reload ==
    LET m == mountApp(storedPlanning, storedTasks, now, devBuild) IN
    /\ tasks' = m.tasks
    /\ planningTasks' = m.planningTasks
    /\ timers' = m.timers
    /\ nextHandle' = m.nextHandle
    /\ storedPlanning' = m.storedPlanning
    /\ storedTasks' = m.storedTasks
    /\ permissionRequested' = FALSE
    /\ showNotificationPrompt' = FALSE
    /\ pendingTaskForNotification' = None
    /\ pendingAdds' = <<>>
    /\ shown' = {}
    /\ UNCHANGED <<now, devBuild, supported, permission, nextId, deletedIds>>

Next ==
    \/ \E name \in Names, reminder \in ReminderInputs : handleAddPlanningTask(name, reminder)
    \/ \E answer \in BrowserAnswers : resumeAddPlanningTask(answer)
    \/ \E taskId \in 1..MaxIds, p \in PriorityInputs : handleUpdatePlanningTaskPriority(taskId, p)
    \/ \E taskId \in 1..MaxIds : handleDeletePlanningTask(taskId)
    \/ \E name \in Names, points \in PointsInputs : handleAddTask(name, points)
    \/ \E h \in DOMAIN timers : timerFires(h)
    \/ \E n \in shown : handleTaskComplete(n)
    \/ \E n \in shown : handleSnooze(n)
    \/ closePrompt
    \/ \E answer \in BrowserAnswers : handleEnableNotifications(answer)
    \/ advance
    \/ reload

Spec == Init /\ [][Next]_vars

(* ======================= reminder properties =========================== *)
TaskAt(i) == planningTasks[i]

LiveTimersOf(tm, id) == {h \in DOMAIN tm : tm[h].taskId = id}

EnabledReminder(task) == task.reminder # None /\ task.reminder[1].enabled

KnownOptions == {"1hr", "2hr", "custom"}

\* C1: a task whose creation timer (total delay D) is live and recorded, and
\* whose collection is persisted, has after a reload at elapsed < D exactly one
\* live timer, with delay D - elapsed.
C1_RearmedOnReload ==
    [][reload =>
        \A i \in 1..Len(planningTasks) :
            LET task == TaskAt(i)
                h == task.reminder[1].timeoutId
            IN (/\ EnabledReminder(task)
                /\ h \in DOMAIN timers
                /\ timers[h].src = "create"
                /\ timers[h].taskId = task.id
                /\ storedPlanning = Some(StringifyPlanning(planningTasks))
                /\ now - task.createdAt < timers[h].delay)
               => /\ Cardinality(LiveTimersOf(timers', task.id)) = 1
                  /\ \A k \in LiveTimersOf(timers', task.id) :
                        timers'[k].delay = timers[h].delay - (now - task.createdAt)]_vars

\* C2: once handleDeletePlanningTask has removed a task, no reminder
\* notification is shown for its id.
C2_NoNotificationAfterDelete ==
    [][\A h \in DOMAIN timers :
          (timerFires(h) /\ showsNotification) => timers[h].taskId \notin deletedIds]_vars

\* C3: every planning task has at most one live timer.
C3_AtMostOneLiveTimer ==
    \A i \in 1..Len(planningTasks) :
        Cardinality(LiveTimersOf(timers, TaskAt(i).id)) <= 1

\* C4: a task's reminder.timeoutId is present only while a timer armed for that
\* task by this page is live under that handle.
C4_HandleOnlyWhileLive ==
    \A i \in 1..Len(planningTasks) :
        (TaskAt(i).reminder # None /\ TaskAt(i).reminder[1].timeoutId # NoHandle)
        => /\ TaskAt(i).reminder[1].timeoutId \in DOMAIN timers
           /\ timers[TaskAt(i).reminder[1].timeoutId].taskId = TaskAt(i).id

\* the delay the reminder configuration stands for: 30 minutes when
\* customMinutes is unset, zero or negative
ConfiguredDelayMs(r) ==
    CASE r.option = "1hr" -> 3600000
      [] r.option = "2hr" -> 7200000
      [] r.option = "custom" ->
            IF r.customMinutes # None /\ r.customMinutes[1] > 0
            THEN r.customMinutes[1] * 60000 ELSE 1800000

\* C5: for every reminder configuration of a known option, creation and
\* restore use the same delay, the configured one.
C5_DelayAsConfigured ==
    \A i \in 1..Len(planningTasks) :
        (TaskAt(i).reminder # None /\ TaskAt(i).reminder[1].option \in KnownOptions)
        => /\ scheduleReminderDelayMs(TaskAt(i).reminder[1])
                = Some(ConfiguredDelayMs(TaskAt(i).reminder[1]))
           /\ restoreTotalDelayMs(TaskAt(i).reminder[1])
                = Some(ConfiguredDelayMs(TaskAt(i).reminder[1]))

(* ================== creation without authorization ===================== *)
\* the outcomes other than granted that requestPermission reaches without
\* asking the browser: unsupported, denied, deferred to the custom prompt
NotGrantedNow ==
    \/ ~supported
    \/ permission = "denied"
    \/ permission = "default" /\ ~permissionRequested

\* the submitted task with its reminder switched off and no handle
DisabledTask(id, name, createdAt, reminder) ==
    [id |-> id, name |-> name, priority |-> "low", createdAt |-> createdAt,
     reminder |-> Some([enabled |-> FALSE, option |-> reminder[1].option,
                        customMinutes |-> reminder[1].customMinutes,
                        timeoutId |-> NoHandle])]

\* C6: handleAddPlanningTask with an enabled reminder and an authorization
\* outcome other than granted (unsupported, denied, deferred to the custom
\* prompt, or a browser answer other than granted) appends the task with
\* reminder.enabled = false and no timeoutId, and arms no timer; the appended
\* task is the same whatever the outcome.
C6_DisabledWhenNotGranted ==
    [][/\ \A name \in Names, reminder \in ReminderInputs :
            (/\ handleAddPlanningTask(name, reminder)
             /\ reminder # None /\ reminder[1].enabled
             /\ NotGrantedNow)
            => /\ planningTasks' =
                    Append(planningTasks, DisabledTask(nextId, name, now, reminder))
               /\ timers' = timers
       /\ \A answer \in BrowserAnswers \ {"granted"} :
            resumeAddPlanningTask(answer)
            => /\ planningTasks' =
                    Append(planningTasks,
                           DisabledTask(Head(pendingAdds).id, Head(pendingAdds).name,
                                        Head(pendingAdds).createdAt,
                                        Head(pendingAdds).reminder))
               /\ timers' = timers]_vars

\* a task whose reminder was switched off at creation, the custom prompt open
C6_Witness ==
    /\ showNotificationPrompt
    /\ \E i \in 1..Len(planningTasks) :
        /\ TaskAt(i).reminder # None
        /\ ~TaskAt(i).reminder[1].enabled
        /\ TaskAt(i).reminder[1].timeoutId = NoHandle
        /\ LiveTimersOf(timers, TaskAt(i).id) = {}

(* ========================= missed reminders ============================ *)
\* a reminder the restore effect finds enabled, without handle, with
\* remaining = totalDelay - (t - createdAt) <= 0
Missed(task, t) ==
    /\ EnabledReminder(task)
    /\ task.reminder[1].timeoutId = NoHandle
    /\ restoreTotalDelayMs(task.reminder[1]) # None
    /\ restoreTotalDelayMs(task.reminder[1])[1] - (t - task.createdAt) <= 0

\* C7: the restore effect arms a timer only for remaining > 0, and a task
\* whose reminder is missed has no live timer and no notification shown, at
\* the restore and in every later state of the session.
C7_NoCatchUp ==
    /\ \A h \in DOMAIN timers : timers[h].src = "restore" => timers[h].delay > 0
    /\ \A i \in 1..Len(planningTasks) :
        Missed(TaskAt(i), now)
        => /\ LiveTimersOf(timers, TaskAt(i).id) = {}
           /\ \A n \in shown : n.taskId # TaskAt(i).id

\* a missed reminder, later in the session, after another task was added and
\* the restore effect ran again
C7_Witness ==
    /\ now = MaxTicks * TickMs
    /\ Len(planningTasks) >= 2
    /\ Missed(TaskAt(1), now)
    /\ TaskAt(2).createdAt > TaskAt(1).createdAt

(* ========================== unknown options ============================ *)
UnknownOption(task) ==
    task.reminder # None /\ task.reminder[1].option \notin KnownOptions

\* the restore effect run on the present collection
RestoreNow ==
    restoreReminders([pt |-> planningTasks, tm |-> timers, nh |-> nextHandle], now)

\* C8: a reminder with an option other than 1hr, 2hr, custom never has a
\* handle or a live timer; creation appends its task and arms nothing; the
\* restore effect leaves the task in place, arms nothing for it, and has
\* processed the other tasks (none is left that it would arm).
C8_UnknownOptionIgnored ==
    /\ [](\A i \in 1..Len(planningTasks) :
            UnknownOption(TaskAt(i))
            => /\ TaskAt(i).reminder[1].timeoutId = NoHandle
               /\ LiveTimersOf(timers, TaskAt(i).id) = {}
               /\ Len(RestoreNow.pt) = Len(planningTasks)
               /\ RestoreNow.pt[i] = TaskAt(i)
               /\ LiveTimersOf(RestoreNow.tm, TaskAt(i).id) = {})
    /\ [](\A i \in 1..Len(planningTasks) :
            (/\ EnabledReminder(TaskAt(i))
             /\ TaskAt(i).reminder[1].timeoutId = NoHandle
             /\ ~UnknownOption(TaskAt(i)))
            => Missed(TaskAt(i), now))
    /\ [][/\ \A name \in Names, reminder \in ReminderInputs :
                (/\ handleAddPlanningTask(name, reminder)
                 /\ reminder # None /\ reminder[1].option \notin KnownOptions
                 /\ permission = "granted")
                => /\ planningTasks' =
                        Append(planningTasks,
                               [id |-> nextId, name |-> name, priority |-> "low",
                                createdAt |-> now, reminder |-> reminder])
                   /\ timers' = timers
          /\ (/\ resumeAddPlanningTask("granted")
              /\ UnknownOption(Head(pendingAdds)))
             => /\ planningTasks' = Append(planningTasks, Head(pendingAdds))
                /\ timers' = timers]_vars

\* a loaded task with an unknown option ahead of one the restore effect armed,
\* and a task with an unknown option created in this run
C8_Witness ==
    /\ Len(planningTasks) >= 3
    /\ UnknownOption(TaskAt(1)) /\ EnabledReminder(TaskAt(1))
    /\ \E h \in LiveTimersOf(timers, TaskAt(2).id) : timers[h].src = "restore"
    /\ UnknownOption(TaskAt(3)) /\ EnabledReminder(TaskAt(3))
    /\ TaskAt(3).createdAt > 0

(* ============================ priorities =============================== *)
\* C9: handleUpdatePlanningTaskPriority(taskId, p) keeps the tasks and their
\* order, sets only the priority of the task with taskId to p, changes nothing
\* when no task has taskId, arms and cancels no timer; applying it with the
\* task's present priority, or a second time with the same p, changes nothing.
C9_PriorityOnly ==
    /\ [][\A taskId \in 1..MaxIds, p \in PriorityInputs :
            handleUpdatePlanningTaskPriority(taskId, p)
            => /\ Len(planningTasks') = Len(planningTasks)
               /\ \A i \in 1..Len(planningTasks) :
                    /\ planningTasks'[i].id = TaskAt(i).id
                    /\ planningTasks'[i].name = TaskAt(i).name
                    /\ planningTasks'[i].createdAt = TaskAt(i).createdAt
                    /\ planningTasks'[i].reminder = TaskAt(i).reminder
                    /\ planningTasks'[i].priority =
                          IF TaskAt(i).id = taskId THEN p ELSE TaskAt(i).priority
               /\ (~HasTask(planningTasks, taskId) => planningTasks' = planningTasks)
               /\ timers' = timers
               /\ nextHandle' = nextHandle]_vars
    /\ [](\A taskId \in 1..MaxIds, p \in Priorities :
            /\ updatePriority(updatePriority(planningTasks, taskId, p), taskId, p)
                  = updatePriority(planningTasks, taskId, p)
            /\ (HasTask(planningTasks, taskId)
                /\ FindTask(planningTasks, taskId).priority = p)
               => updatePriority(planningTasks, taskId, p) = planningTasks)

\* a re-prioritized task with a live recorded timer, ahead of another task
C9_Witness ==
    /\ Len(planningTasks) >= 2
    /\ TaskAt(1).priority = "high"
    /\ TaskAt(1).reminder # None
    /\ TaskAt(1).reminder[1].timeoutId \in DOMAIN timers
    /\ TaskAt(2).priority = "low"

(* ============================= deletion ================================ *)
\* the handle recorded on the task with this id, NoHandle if there is none
RecordedHandle(pt, taskId) ==
    IF HasTask(pt, taskId) /\ FindTask(pt, taskId).reminder # None
    THEN FindTask(pt, taskId).reminder[1].timeoutId
    ELSE NoHandle

\* C10: handleDeletePlanningTask(taskId) removes exactly the task with taskId,
\* keeps the others unchanged and in order, and cancels the handle recorded on
\* the removed task and no other handle; when no task has taskId the
\* collection and the timers are unchanged.
C10_DeleteExactlyOne ==
    [][\A taskId \in 1..MaxIds :
        handleDeletePlanningTask(taskId)
        => /\ planningTasks' = SelectSeq(planningTasks, LAMBDA task : task.id # taskId)
           /\ DOMAIN timers' = DOMAIN timers \ {RecordedHandle(planningTasks, taskId)}
           /\ \A h \in DOMAIN timers' : timers'[h] = timers[h]
           /\ (~HasTask(planningTasks, taskId)
               => planningTasks' = planningTasks /\ timers' = timers)]_vars

\* a task was removed, no timer of it is left, another task still has its
\* live recorded timer
C10_Witness ==
    /\ tasks = <<>>
    /\ \E id \in deletedIds :
        /\ id \notin PlanningIds(planningTasks)
        /\ LiveTimersOf(timers, id) = {}
    /\ \E i \in 1..Len(planningTasks) :
        /\ TaskAt(i).reminder # None
        /\ TaskAt(i).reminder[1].timeoutId \in DOMAIN timers

(* ========================= completed tasks ============================= *)
\* C11: within a page session the completed-task collection is append-only:
\* handleAddTask appends exactly one record, stamped now, at the end, and no
\* step other than a reload removes, reorders or changes a record.
C11_AppendOnly ==
    [][/\ \A name \in Names, points \in PointsInputs :
            handleAddTask(name, points)
            => tasks' = Append(tasks, [id |-> nextId, name |-> name,
                                       timestamp |-> now, points |-> points])
       /\ ~reload
          => \/ tasks' = tasks
             \/ /\ Len(tasks') = Len(tasks) + 1
                /\ SubSeq(tasks', 1, Len(tasks)) = tasks
                /\ tasks'[Len(tasks')].timestamp = now]_vars

\* a task completed from its reminder, then a second completed task appended
C11_Witness ==
    /\ Len(tasks) = 2
    /\ deletedIds # {}
    /\ tasks[1].points = Some(10)
    /\ tasks[2].timestamp >= tasks[1].timestamp

(* ===================== new planning tasks ============================== *)
\* C12: a planning task is appended with priority low and with createdAt the
\* moment handleAddPlanningTask was called, also when the call waited for the
\* browser's decision; afterwards only handleUpdatePlanningTaskPriority
\* changes a task's priority.
C12_LowAndStamped ==
    [][/\ \A name \in Names, reminder \in ReminderInputs :
            handleAddPlanningTask(name, reminder)
            => IF pendingAdds' = pendingAdds
               THEN /\ Len(planningTasks') = Len(planningTasks) + 1
                    /\ planningTasks'[Len(planningTasks')].id = nextId
                    /\ planningTasks'[Len(planningTasks')].priority = "low"
                    /\ planningTasks'[Len(planningTasks')].createdAt = now
               ELSE /\ planningTasks' = planningTasks
                    /\ Len(pendingAdds') = Len(pendingAdds) + 1
                    /\ pendingAdds'[Len(pendingAdds')].id = nextId
                    /\ pendingAdds'[Len(pendingAdds')].priority = "low"
                    /\ pendingAdds'[Len(pendingAdds')].createdAt = now
       /\ \A answer \in BrowserAnswers :
            resumeAddPlanningTask(answer)
            => /\ Len(planningTasks') = Len(planningTasks) + 1
               /\ planningTasks'[Len(planningTasks')].id = Head(pendingAdds).id
               /\ planningTasks'[Len(planningTasks')].priority = "low"
               /\ planningTasks'[Len(planningTasks')].createdAt
                     = Head(pendingAdds).createdAt
       /\ (\A taskId \in 1..MaxIds, p \in PriorityInputs :
                ~handleUpdatePlanningTaskPriority(taskId, p))
          => \A i \in 1..Len(planningTasks), j \in 1..Len(planningTasks') :
                planningTasks'[j].id = TaskAt(i).id
                => planningTasks'[j].priority = TaskAt(i).priority]_vars

\* a task appended after the browser granted: its timer was armed later than
\* the task was created
C12_Witness ==
    \E i \in 1..Len(planningTasks) :
        /\ TaskAt(i).priority = "low"
        /\ \E h \in LiveTimersOf(timers, TaskAt(i).id) :
            /\ timers[h].src = "create"
            /\ timers[h].armedAt > TaskAt(i).createdAt

(* ============================ persistence ============================== *)
\* C13: in every state (a handler has run to completion with the effects it
\* triggered) the 'tasks' record is the serialization of the whole completed
\* collection and the 'planningTasks' record the serialization of the whole
\* planning collection.
C13_StorageMirrorsState ==
    /\ storedTasks = Some(StringifyTasks(tasks))
    /\ storedPlanning = Some(StringifyPlanning(planningTasks))

\* both collections non-empty, a handle recorded and a priority changed
C13_Witness ==
    /\ Len(tasks) >= 1
    /\ \E i \in 1..Len(planningTasks) :
        /\ TaskAt(i).priority = "high"
        /\ TaskAt(i).reminder # None
        /\ TaskAt(i).reminder[1].timeoutId # NoHandle
    /\ storedPlanning[1].items # <<>>
    /\ storedTasks[1].items # <<>>

\* C14: a reload loses nothing: after the mount sequence both collections
\* hold the records they held before (id, name, points, priority, equal
\* timestamp / createdAt) and both storage records hold them again.
C14_ReloadKeepsEverything ==
    [][reload
       => /\ tasks' = tasks
          /\ Len(planningTasks') = Len(planningTasks)
          /\ \A i \in 1..Len(planningTasks) :
                /\ planningTasks'[i].id = TaskAt(i).id
                /\ planningTasks'[i].name = TaskAt(i).name
                /\ planningTasks'[i].priority = TaskAt(i).priority
                /\ planningTasks'[i].createdAt = TaskAt(i).createdAt
          /\ storedTasks' = Some(StringifyTasks(tasks))
          /\ Len(storedPlanning'[1].items) = Len(planningTasks)]_vars

(* ========================= malformed storage =========================== *)
\* a date text new Date() cannot parse
UnparseableDate == [text |-> "not a date"]

\* what the 'tasks' key can hold when the page is opened: nothing, text that
\* is not JSON, JSON that is not an array, a stored collection, and a record
\* whose timestamp is not a date
TasksTexts ==
    { None,
      Some([json |-> "syntax error"]),
      Some([json |-> "object"]),
      Some(ArrayText(<<[id |-> 1, name |-> "a", timestamp |-> DateToISO(0),
                        points |-> Some(5)]>>)),
      Some(ArrayText(<<[id |-> 1, name |-> "a", timestamp |-> UnparseableDate,
                        points |-> Some(5)]>>)) }

\* the same for the 'planningTasks' key
PlanningTexts ==
    { None,
      Some([json |-> "syntax error"]),
      Some([json |-> "object"]),
      Some(ArrayText(<<StoredTask(1, "a", StoredReminder("2hr", None))>>)),
      Some(ArrayText(<<[id |-> 1, name |-> "a", priority |-> "low",
                        createdAt |-> UnparseableDate, reminder |-> None]>>)) }

\* the page before App is mounted: storage holds what earlier sessions, or
\* anything else writing to the origin's localStorage, left there
InitLoad ==
    \E stt \in TasksTexts, sp \in PlanningTexts, dev \in BOOLEAN :
        /\ now = TickMs
        /\ devBuild = dev
        /\ supported = TRUE
        /\ permission = "granted"
        /\ permissionRequested = FALSE
        /\ tasks = <<>>
        /\ planningTasks = <<>>
        /\ showNotificationPrompt = FALSE
        /\ pendingTaskForNotification = None
        /\ storedTasks = stt
        /\ storedPlanning = sp
        /\ timers = <<>>
        /\ nextHandle = 1
        /\ nextId = 2
        /\ pendingAdds = <<>>
        /\ shown = {}
        /\ deletedIds = {}

\* App is mounted and its persist effects have run
Mounted ==
    /\ storedTasks = Some(StringifyTasks(tasks))
    /\ storedPlanning = Some(StringifyPlanning(planningTasks))

\* the page is opened (reload mounts App), then used
NextLoad ==
    \/ reload
    \/ Mounted /\ \E name \in Names, points \in PointsInputs : handleAddTask(name, points)
    \/ Mounted /\ \E taskId \in 1..MaxIds, p \in PriorityInputs :
                    handleUpdatePlanningTaskPriority(taskId, p)
    \/ Mounted /\ advance

SpecLoad == InitLoad /\ [][NextLoad]_vars

\* the stored text is malformed: not parseable, not an array, or holding a
\* record whose date field cannot be parsed
MalformedTasks(stored) ==
    /\ stored # None
    /\ \/ stored[1].json # "array"
       \/ \E i \in 1..Len(stored[1].items) :
            stored[1].items[i].timestamp = UnparseableDate

MalformedPlanning(stored) ==
    /\ stored # None
    /\ \/ stored[1].json # "array"
       \/ \E i \in 1..Len(stored[1].items) :
            stored[1].items[i].createdAt = UnparseableDate

\* C15: when the text under a key is malformed, the collection of that key is
\* empty after the load, and the collection of the other key is what it is
\* loaded as without the malformed text.
C15_MalformedLoadsEmpty ==
    [][reload
       => /\ MalformedTasks(storedTasks) => tasks' = <<>>
          /\ MalformedPlanning(storedPlanning) => planningTasks' = <<>>
          /\ tasks' = mountApp(None, storedTasks, now, devBuild).tasks
          /\ planningTasks'
                = mountApp(storedPlanning, None, now, devBuild).planningTasks]_vars

(* ===================== TaskList and ProgressChart ====================== *)
\* calendar arithmetic in a zone without clock changes: every day has DayMs
DayMs == 24 * 60 * 60 * 1000
SecondMs == 1000

\* new Date(t) followed by setHours(0, 0, 0, 0)
startOfDay(t) == t - (t % DayMs)
\* new Date(t) followed by setHours(23, 59, 59, 999)
endOfDay(t) == startOfDay(t) + (23 * 60 * 60 + 59 * 60 + 59) * SecondMs + 999
\* Date.prototype.toDateString: the calendar day, here as a day number
toDateString(t) == t \div DayMs
\* day.setDate(day.getDate() - k) on a Date at midnight
daysBefore(midnight, k) == midnight - k * DayMs

\* (task.points || 0)
pointsOr0(task) == IF Truthy(task.points) THEN task.points[1] ELSE 0

\* reduce((sum, task) => sum + (task.points || 0), 0)
RECURSIVE sumPoints(_)
sumPoints(ts) ==
    IF ts = <<>> THEN 0 ELSE pointsOr0(Head(ts)) + sumPoints(Tail(ts))

\* previousTasks taking midnight itself as a previous day
previousTasksInclusive(ts, t) ==
    SelectSeq(ts, LAMBDA task : task.timestamp <= startOfDay(t))

\* TaskList: previousTasks
previousTasks(ts, t) ==
    SelectSeq(ts, LAMBDA task : task.timestamp < startOfDay(t))

\* tasksToday with an end of day cut at the full second
tasksTodayToTheSecond(ts, t) ==
    SelectSeq(ts, LAMBDA task :
        task.timestamp >= startOfDay(t) /\ task.timestamp <= endOfDay(t) - 999)

\* TaskList: tasksToday
tasksToday(ts, t) ==
    SelectSeq(ts, LAMBDA task :
        task.timestamp >= startOfDay(t) /\ task.timestamp <= endOfDay(t))

\* totalPointsToday summed over all tasks
totalPointsTodayAll(ts, t) == sumPoints(ts)

\* TaskList: totalPointsToday and totalPoints
totalPointsToday(ts, t) == sumPoints(tasksToday(ts, t))
totalPoints(ts) == sumPoints(ts)

\* the while loop of calculateStreak
RECURSIVE streakLoop(_, _, _)
streakLoop(daySet, day, streak) ==
    IF day \in daySet THEN streakLoop(daySet, day - 1, streak + 1) ELSE streak

\* calculateStreak counting the days that have tasks
calculateStreakAllDays(ts, t) ==
    Cardinality({toDateString(ts[i].timestamp) : i \in 1..Len(ts)})

\* TaskList: calculateStreak
calculateStreak(ts, t) ==
    IF Len(ts) = 0 THEN 0
    ELSE streakLoop({toDateString(ts[i].timestamp) : i \in 1..Len(ts)},
                    toDateString(t), 0)

\* ProgressChart with the window ending yesterday
chartDataShifted(ts, t) ==
    [k \in 1..7 |->
        sumPoints(SelectSeq(ts, LAMBDA task :
            toDateString(task.timestamp)
                = toDateString(daysBefore(startOfDay(t), 7 - (k - 1)))))]

\* ProgressChart: d3.range(7).map(i => ...), element i at position i + 1
chartData(ts, t) ==
    [k \in 1..7 |->
        sumPoints(SelectSeq(ts, LAMBDA task :
            toDateString(task.timestamp)
                = toDateString(daysBefore(startOfDay(t), 6 - (k - 1)))))]

\* ProgressChart, other revision: for (i = 6; i >= 0; i--) data.push(...)
chartDataPushed(ts, t) ==
    [k \in 1..7 |->
        sumPoints(SelectSeq(ts, LAMBDA task :
            startOfDay(task.timestamp) = daysBefore(startOfDay(t), 6 - (k - 1))))]

\* getDailyBadgeLabel with strict comparisons
getDailyBadgeLabelStrict(points) ==
    IF points > 30 THEN Some("Amazing Day")
    ELSE IF points > 20 THEN Some("Great Day")
    ELSE IF points > 10 THEN Some("Good Day")
    ELSE None

\* AchievementBadge: getDailyBadgeLabel, None for null
getDailyBadgeLabel(points) ==
    IF points >= 30 THEN Some("Amazing Day")
    ELSE IF points >= 20 THEN Some("Great Day")
    ELSE IF points >= 10 THEN Some("Good Day")
    ELSE None

(* ------------- the completed collection over several days -------------- *)
MaxDay == 8        \* the clock of SpecDays stops at noon of day MaxDay

\* the clock is read later: Date.now() / new Date() return t2
clockTo(t2) ==
    /\ t2 > now
    /\ \A h \in DOMAIN timers : DueAt(timers[h]) > t2
    /\ now' = t2
    /\ UNCHANGED <<devBuild, supported, permission, permissionRequested, tasks,
                   planningTasks, showNotificationPrompt, pendingTaskForNotification,
                   storedTasks, storedPlanning, timers, nextHandle, nextId,
                   pendingAdds, shown, deletedIds>>

\* App mounted at time t on the stored 'tasks' text stt, no planning tasks,
\* notifications never asked for
MountedAt(t, stt) ==
    LET m == mountApp(None, stt, t, FALSE) IN
    /\ now = t
    /\ devBuild = FALSE
    /\ supported = TRUE
    /\ permission = "default"
    /\ permissionRequested = FALSE
    /\ tasks = m.tasks
    /\ planningTasks = m.planningTasks
    /\ showNotificationPrompt = FALSE
    /\ pendingTaskForNotification = None
    /\ storedTasks = m.storedTasks
    /\ storedPlanning = m.storedPlanning
    /\ timers = m.timers
    /\ nextHandle = m.nextHandle
    /\ nextId = 1
    /\ pendingAdds = <<>>
    /\ shown = {}
    /\ deletedIds = {}

\* instants around the two midnights of day 1: 23:59:59 of day 0, 00:00:00,
\* 00:00:01, 23:59:59 and 23:59:59.999 of day 1, 00:00:00 of day 2
TodayInstants ==
    { DayMs - SecondMs, DayMs, DayMs + SecondMs,
      2 * DayMs - SecondMs, 2 * DayMs - 1, 2 * DayMs }

\* the points a completed task is added with
TodayPoints == {None, Some(1), Some(9), Some(10)}

InitToday == MountedAt(DayMs - SecondMs, None)

NextToday ==
    \/ \E name \in Names, points \in TodayPoints : handleAddTask(name, points)
    \/ \E t2 \in TodayInstants : clockTo(t2)

\* completed tasks added around midnight
SpecToday == InitToday /\ [][NextToday]_vars

\* noon of day d
Noon(d) == d * DayMs + DayMs \div 2

\* the last millisecond of day d
LastMs(d) == (d + 1) * DayMs - 1

\* noon of every day, and the last millisecond of every day
DayInstants == {Noon(d) : d \in 0..MaxDay} \cup {LastMs(d) : d \in 0..MaxDay}

DayPoints == {None, Some(5)}

\* a completed task of an earlier session, as stored
StoredCompleted(id, t) ==
    [id |-> id, name |-> "a", timestamp |-> DateToISO(t), points |-> Some(5)]

\* the 'tasks' record found at mount: absent, a task of day 0, or that task and
\* one stamped on day MaxDay (by a clock that was ahead)
DaysTexts ==
    { None,
      Some(ArrayText(<<StoredCompleted(MaxIds + 1, Noon(0))>>)),
      Some(ArrayText(<<StoredCompleted(MaxIds + 1, Noon(0)),
                       StoredCompleted(MaxIds + 2, Noon(MaxDay))>>)) }

InitDays == \E stt \in DaysTexts : MountedAt(Noon(0), stt)

NextDays ==
    \/ \E name \in Names, points \in DayPoints : handleAddTask(name, points)
    \/ \E t2 \in DayInstants : clockTo(t2)

\* completed tasks added over the days 0..MaxDay
SpecDays == InitDays /\ [][NextDays]_vars

(* ---------------------- summaries of the collection -------------------- *)
\* the points of a task, absent counted as 0
PointsOf(task) == IF task.points = None THEN 0 ELSE task.points[1]

\* the sum of PointsOf over the tasks at the positions in S
RECURSIVE SumOver(_, _)
SumOver(ts, S) ==
    IF S = {} THEN 0
    ELSE LET i == CHOOSE x \in S : TRUE IN PointsOf(ts[i]) + SumOver(ts, S \ {i})

\* the calendar day of an instant, and the positions of the tasks of a day
DayOf(t) == t \div DayMs
OnDay(ts, d) == {i \in 1..Len(ts) : DayOf(ts[i].timestamp) = d}

\* C16: tasksToday holds exactly the tasks with a timestamp in [local
\* midnight of now, local midnight of now + 1 day), totalPointsToday is their
\* sum of points (absent counted as 0) and totalPoints the sum over all tasks.
C16_TodayWindow ==
    LET lo == DayOf(now) * DayMs
        hi == lo + DayMs
    IN /\ tasksToday(tasks, now)
            = SelectSeq(tasks, LAMBDA task : lo <= task.timestamp /\ task.timestamp < hi)
       /\ totalPointsToday(tasks, now)
            = SumOver(tasks, {i \in 1..Len(tasks) :
                                lo <= tasks[i].timestamp /\ tasks[i].timestamp < hi})
       /\ totalPoints(tasks) = SumOver(tasks, 1..Len(tasks))

\* at 23:59:59.999 of day 1: tasks of 23:59:59 the day before, of 00:00:01 and
\* of 23:59:59.999 today; the first is left out, the other two are counted
C16_Witness ==
    /\ now = 2 * DayMs - 1
    /\ Len(tasks) = 3
    /\ tasks[1].timestamp = DayMs - SecondMs
    /\ tasks[2].timestamp = DayMs + SecondMs
    /\ tasks[3].timestamp = 2 * DayMs - 1
    /\ tasks[2].points = None
    /\ Len(tasksToday(tasks, now)) = 2

\* C17: calculateStreak is the largest k >= 0 such that each of the days
\* today, today-1, ..., today-(k-1) has a task: 0 without a task today, at
\* least 1 with one, 3 for tasks on today, today-1, today-2 and today-4.
C17_Streak ==
    LET days == {DayOf(tasks[i].timestamp) : i \in 1..Len(tasks)}
        today == DayOf(now)
        k == calculateStreak(tasks, now)
    IN /\ k >= 0
       /\ \A d \in 0..(k - 1) : today - d \in days
       /\ today - k \notin days
       /\ today \notin days => k = 0
       /\ today \in days => k >= 1
       /\ days = {today, today - 1, today - 2, today - 4} => k = 3

\* tasks on today, today-1, today-2 and today-4
C17_Witness ==
    /\ {DayOf(tasks[i].timestamp) : i \in 1..Len(tasks)}
          = {DayOf(now), DayOf(now) - 1, DayOf(now) - 2, DayOf(now) - 4}
    /\ calculateStreak(tasks, now) = 3

\* C18: the weekly series has 7 elements, oldest first, element i (0..6) the
\* sum of points of the tasks of calendar day today-(6-i); older and future
\* tasks count nowhere; both ProgressChart revisions compute the same series.
C18_WeeklySeries ==
    /\ DOMAIN chartData(tasks, now) = 1..7
    /\ \A k \in 1..7 :
          chartData(tasks, now)[k]
              = SumOver(tasks, OnDay(tasks, DayOf(now) - (6 - (k - 1))))
    /\ chartDataPushed(tasks, now) = chartData(tasks, now)

\* a task older than 6 days, a task dated in the future, and points on the
\* oldest and on the newest day of the window
C18_Witness ==
    /\ \E i \in 1..Len(tasks) : DayOf(tasks[i].timestamp) < DayOf(now) - 6
    /\ \E i \in 1..Len(tasks) : DayOf(tasks[i].timestamp) > DayOf(now)
    /\ chartData(tasks, now)[1] > 0
    /\ chartData(tasks, now)[7] > 0

\* the rank of a badge label
BadgeTier(label) ==
    CASE label = None -> 0
      [] label = Some("Good Day") -> 1
      [] label = Some("Great Day") -> 2
      [] label = Some("Amazing Day") -> 3

\* C19: getDailyBadgeLabel(p) is 'Amazing Day' for p >= 30, 'Great Day' for
\* 20 <= p < 30, 'Good Day' for 10 <= p < 20 and no badge for p < 10, so the
\* tier never decreases as p increases; p ranges over every total up to the
\* collection's, and the negative ones.
C19_BadgeThresholds ==
    LET range == (0 - totalPoints(tasks))..totalPoints(tasks) IN
    /\ \A p \in range :
        /\ p >= 30 => getDailyBadgeLabel(p) = Some("Amazing Day")
        /\ (20 <= p /\ p < 30) => getDailyBadgeLabel(p) = Some("Great Day")
        /\ (10 <= p /\ p < 20) => getDailyBadgeLabel(p) = Some("Good Day")
        /\ p < 10 => getDailyBadgeLabel(p) = None
    /\ \A p, q \in range :
        p <= q => BadgeTier(getDailyBadgeLabel(p)) <= BadgeTier(getDailyBadgeLabel(q))

\* a day with exactly 30 points
C19_Witness ==
    /\ totalPointsToday(tasks, now) = 30
    /\ getDailyBadgeLabel(totalPointsToday(tasks, now)) = Some("Amazing Day")

(* ------------------- a click on a reminder notification ---------------- *)
\* the action buttons showTaskReminder declares (config.actions)
NotificationActions == {"complete_task", "snooze_reminder"}

\* config.data.action of a reminder notification
reminderDataAction == "task_reminder"

\* NotificationService.handleNotificationAction: the window event it
\* dispatches, None for the branches that only focus the window
handleNotificationAction(action) ==
    CASE action = "complete_task" -> Some("notificationTaskComplete")
      [] action = "snooze_reminder" -> Some("notificationSnooze")
      [] action = "view_tasks" -> None
      [] OTHER -> None

\* notification.onclick of the reminder notification with data n; chosen is
\* the button the user meant, which the handler never reads: it closes the
\* notification and passes config.data.action to handleNotificationAction,
\* whose event, if any, runs the listener App registered for it
notificationClick(n, chosen) ==
    /\ n \in shown
    /\ chosen \in NotificationActions
    /\ LET event == handleNotificationAction(reminderDataAction) IN
       IF event = Some("notificationTaskComplete") THEN handleTaskComplete(n)
       ELSE IF event = Some("notificationSnooze") THEN handleSnooze(n)
       ELSE /\ shown' = shown \ {n}
            /\ UNCHANGED <<now, devBuild, supported, permission, permissionRequested,
                           tasks, planningTasks, showNotificationPrompt,
                           pendingTaskForNotification, storedTasks, storedPlanning,
                           timers, nextHandle, nextId, pendingAdds, deletedIds>>

\* the app with notifications granted
InitNotify == Init /\ permission = "granted"

NextNotify ==
    \/ \E name \in Names, reminder \in ReminderInputs : handleAddPlanningTask(name, reminder)
    \/ \E taskId \in 1..MaxIds : handleDeletePlanningTask(taskId)
    \/ \E h \in DOMAIN timers : timerFires(h)
    \/ \E n \in shown, chosen \in NotificationActions : notificationClick(n, chosen)
    \/ advance

\* reminders firing and their notifications being clicked
SpecNotify == InitNotify /\ [][NextNotify]_vars

\* C20: a click on the 'mark complete' action of a shown reminder whose task
\* is still planned deletes the task and appends a completed task with its
\* name; a click on 'snooze' arms a new 15-minute timer for the task and
\* records its handle on the task.
C20_ActionsTranslated ==
    [][\A n \in shown, chosen \in NotificationActions :
        (notificationClick(n, chosen) /\ HasTask(planningTasks, n.taskId))
        => /\ chosen = "complete_task"
                => /\ ~HasTask(planningTasks', n.taskId)
                   /\ Len(tasks') = Len(tasks) + 1
                   /\ tasks'[Len(tasks')].name = n.taskName
           /\ chosen = "snooze_reminder"
                => \E h \in DOMAIN timers' \ DOMAIN timers :
                      /\ timers'[h].taskId = n.taskId
                      /\ timers'[h].delay = SnoozeDelayMs
                      /\ timers'[h].armedAt = now
                      /\ RecordedHandle(planningTasks', n.taskId) = h]_vars


(* ------------------------ reminder life cycle -------------------------- *)
\* the tasks this page has shown a reminder for (their timer has fired)
FiredIds == {n.taskId : n \in shown}

\* C21: a reminder moves only Unarmed -> Armed -> Fired or Armed ->
\* Cancelled, both terminal: a timer that fires is gone afterwards, and no
\* step arms a timer for a task whose reminder has fired or whose task was
\* deleted.
C21_FiredAndCancelledTerminal ==
    [][/\ \A h \in DOMAIN timers : timerFires(h) => h \notin DOMAIN timers'
       /\ \A h \in (IF reload THEN DOMAIN timers' ELSE DOMAIN timers' \ DOMAIN timers) :
            /\ timers'[h].taskId \notin FiredIds
            /\ timers'[h].taskId \notin deletedIds]_vars


(* ----------------------- the badge of the task list -------------------- *)
\* the props TaskList renders AchievementBadge with: totalPoints and streak;
\* todayPoints is not passed and arrives as undefined
taskListBadgeProps(ts, t) ==
    [totalPoints |-> Some(totalPoints(ts)),
     todayPoints |-> None,
     streak |-> Some(calculateStreak(ts, t))]

\* AchievementBadge: dailyBadge = getDailyBadgeLabel(todayPoints); with
\* undefined every comparison undefined >= n is false and the label is null
AchievementBadge(props) ==
    [dailyBadge |-> IF props.todayPoints = None THEN None
                    ELSE getDailyBadgeLabel(props.todayPoints[1]),
     streakBadge |-> props.streak # None /\ props.streak[1] > 1]

\* the daily badge on the task list
taskListDailyBadge(ts, t) == AchievementBadge(taskListBadgeProps(ts, t)).dailyBadge

\* C22: the daily badge shown with the task list follows today's points:
\* 'Good Day' from 10, 'Great Day' from 20, 'Amazing Day' from 30, and none
\* below 10, whatever the all-time total.
C22_TaskListShowsDailyBadge ==
    LET p == totalPointsToday(tasks, now)
        badge == taskListDailyBadge(tasks, now)
    IN /\ p >= 30 => badge = Some("Amazing Day")
       /\ (20 <= p /\ p < 30) => badge = Some("Great Day")
       /\ (10 <= p /\ p < 20) => badge = Some("Good Day")
       /\ p < 10 => badge = None


(* ------------------ permission granted through the prompt -------------- *)
\* the planning tasks the open prompt stands for: named as the prompt's
\* pending task, with a reminder of a known option that was disabled
PromptedTasks ==
    IF pendingTaskForNotification = None THEN {}
    ELSE {i \in 1..Len(planningTasks) :
            /\ planningTasks[i].name = pendingTaskForNotification[1]
            /\ planningTasks[i].reminder # None
            /\ planningTasks[i].reminder[1].option \in KnownOptions
            /\ ~planningTasks[i].reminder[1].enabled}

\* C23: when the prompt was opened by adding a planning task with a reminder
\* and the user grants permission through it, that task's reminder is enabled
\* again and a timer is armed for it.
C23_GrantReenablesReminder ==
    [][\A answer \in BrowserAnswers :
        (/\ handleEnableNotifications(answer)
         /\ permission' = "granted"
         /\ PromptedTasks # {})
        => \E i \in PromptedTasks :
              /\ HasTask(planningTasks', planningTasks[i].id)
              /\ FindTask(planningTasks', planningTasks[i].id).reminder[1].enabled
              /\ \E h \in DOMAIN timers' : timers'[h].taskId = planningTasks[i].id]_vars


(* ------------------------- requestPermission --------------------------- *)
\* C24: requestPermission returns granted = true only with the browser
\* permission 'granted' at its return; unsupported gives granted = false and
\* showCustomPrompt = false; the first call with the permission undecided
\* gives granted = false, showCustomPrompt = true without asking the browser,
\* which is asked only from the second such call on.
C24_RequestPermission ==
    /\ [](LET res == requestPermission IN
          /\ (res.kind = "done" /\ res.granted) => permission = "granted"
          /\ ~supported =>
                res.kind = "done" /\ ~res.granted /\ ~res.showCustomPrompt
          /\ (supported /\ permission = "default" /\ ~permissionRequested) =>
                /\ res.kind = "done" /\ ~res.granted /\ res.showCustomPrompt
                /\ res.requested
          /\ res.kind = "ask" =>
                supported /\ permission = "default" /\ permissionRequested)
    /\ [][\A answer \in BrowserAnswers :
            /\ (resumeAddPlanningTask(answer) \/ handleEnableNotifications(answer))
                    => (browserResult(answer).granted => permission' = "granted")
            /\ (handleEnableNotifications(answer) /\ permission' # permission)
                    => permissionRequested
            /\ resumeAddPlanningTask(answer) => permissionRequested]_vars

\* the custom prompt came first, then the browser was asked and granted
C24_Witness ==
    /\ supported
    /\ permissionRequested
    /\ permission = "granted"
    /\ requestPermission.granted


(* -------------------------- showNotification --------------------------- *)
\* a text is a sequence of UTF-16 code units: "x" for a non-blank, " " for
\* white space, "..." for the single code unit U+2026
Ellipsis == "..."

SafariTitleMax == 40
SafariBodyMax == 90
OtherTitleMax == 60
OtherBodyMax == 80
MaxText == 91      \* the longest text showNotification is called with

\* String.prototype.trim
RECURSIVE trimStart(_)
trimStart(text) ==
    IF text # <<>> /\ Head(text) = " " THEN trimStart(Tail(text)) ELSE text

RECURSIVE trimEnd(_)
trimEnd(text) ==
    IF text # <<>> /\ text[Len(text)] = " "
    THEN trimEnd(SubSeq(text, 1, Len(text) - 1))
    ELSE text

trim(text) == trimEnd(trimStart(text))

\* text.substring(0, n) for 0 <= n
substring0(text, n) == SubSeq(text, 1, IF n < Len(text) THEN n ELSE Len(text))


\* truncateText cutting at maxLength instead of maxLength - 1
truncateTextLong(text, maxLength) ==
    IF Len(text) <= maxLength THEN text
    ELSE Append(trim(substring0(text, maxLength)), Ellipsis)

\* NotificationService.truncateText
truncateText(text, maxLength) ==
    IF Len(text) <= maxLength THEN text
    ELSE Append(trim(substring0(text, maxLength - 1)), Ellipsis)

\* navigator.userAgent, as the set of the product tokens it includes
UserAgents == {{"Safari"}, {"Safari", "Chrome"}, {}}

isSafari(userAgent) == "Safari" \in userAgent /\ "Chrome" \notin userAgent

\* NotificationService.optimizeForPlatform, for the fields that reach the user
optimizeForPlatform(config, userAgent) ==
    IF isSafari(userAgent)
    THEN [config EXCEPT !.title = truncateText(config.title, SafariTitleMax),
                        !.body = truncateText(config.body, SafariBodyMax),
                        !.actions = None]
    ELSE [config EXCEPT !.title = truncateText(config.title, OtherTitleMax),
                        !.body = truncateText(config.body, OtherBodyMax)]

\* showNotification's result: None for null, else the notification created.
\* throws: new Notification(...) raised (Chromium does for a non-persistent
\* notification with actions), which the catch block turns into null
showNotificationResult(config, userAgent, perm, throws) ==
    IF perm # "granted" THEN None
    ELSE LET optimizedConfig == optimizeForPlatform(config, userAgent) IN
         IF throws THEN None
         ELSE Some([title |-> optimizedConfig.title,
                    body |-> optimizedConfig.body,
                    actions |-> IF optimizedConfig.actions # None
                                   /\ Len(optimizedConfig.actions[1]) > 0
                                THEN optimizedConfig.actions ELSE None,
                    config |-> config,
                    userAgent |-> userAgent])

\* whether the constructor can raise: only with a non-empty actions list
CanThrow(config, userAgent) ==
    IF ~isSafari(userAgent) /\ config.actions # None /\ Len(config.actions[1]) > 0
    THEN BOOLEAN ELSE {FALSE}

\* the texts showNotification is called with: lengths around the four limits,
\* blanks at the start and around the places where the cut falls
TextLengths == {0, 1, SafariTitleMax, SafariTitleMax + 1, OtherTitleMax, OtherTitleMax + 1,
                OtherBodyMax, OtherBodyMax + 1, SafariBodyMax, MaxText}
BlankRuns == {{}, {1}, {SafariTitleMax - 1, SafariTitleMax},
              {OtherTitleMax - 2, OtherTitleMax - 1}, {OtherBodyMax - 1},
              {SafariBodyMax - 2, SafariBodyMax - 1, SafariBodyMax}}
TextOf(n, blanks) == [i \in 1..n |-> IF i \in blanks THEN " " ELSE "x"]
Texts == {TextOf(n, blanks) : n \in TextLengths, blanks \in BlankRuns}

Configs ==
    [title : Texts, body : Texts,
     actions : {None, Some(<<"complete_task", "snooze_reminder">>)}]

MaxShown == 1      \* notifications on screen at once

\* NotificationService.showNotification(config)
showNotification(config, userAgent) ==
    /\ Cardinality(shown) < MaxShown
    /\ \E throws \in CanThrow(config, userAgent) :
          LET notification == showNotificationResult(config, userAgent, permission, throws) IN
          shown' = IF notification = None THEN shown ELSE shown \cup {notification[1]}
    /\ UNCHANGED <<now, devBuild, supported, permission, permissionRequested, tasks,
                   planningTasks, showNotificationPrompt, pendingTaskForNotification,
                   storedTasks, storedPlanning, timers, nextHandle, nextId,
                   pendingAdds, deletedIds>>

\* the auto-close timer of a notification: notification.close()
closeNotification(n) ==
    /\ n \in shown
    /\ shown' = shown \ {n}
    /\ UNCHANGED <<now, devBuild, supported, permission, permissionRequested, tasks,
                   planningTasks, showNotificationPrompt, pendingTaskForNotification,
                   storedTasks, storedPlanning, timers, nextHandle, nextId,
                   pendingAdds, deletedIds>>

\* the permission changes in the browser's site settings
PermissionSettings == {"default", "granted", "denied"}
changePermission(perm) ==
    /\ perm # permission
    /\ permission' = perm
    /\ UNCHANGED <<now, devBuild, supported, permissionRequested, tasks,
                   planningTasks, showNotificationPrompt, pendingTaskForNotification,
                   storedTasks, storedPlanning, timers, nextHandle, nextId,
                   pendingAdds, shown, deletedIds>>

InitShow == MountedAt(TickMs, None)

NextShow ==
    \/ \E config \in Configs, userAgent \in UserAgents : showNotification(config, userAgent)
    \/ \E n \in shown : closeNotification(n)
    \/ \E perm \in PermissionSettings : changePermission(perm)

\* notifications shown through NotificationService
SpecShow == InitShow /\ [][NextShow]_vars

\* the limit the claim gives for a text
TitleLimit(userAgent) == IF isSafari(userAgent) THEN 40 ELSE 60
BodyLimit(userAgent) == IF isSafari(userAgent) THEN 90 ELSE 80

\* a shown text against the requested one: the same when it fits, else at
\* most max long and ending in an ellipsis
FitsOrCut(shownText, requested, max) ==
    IF Len(requested) <= max THEN shownText = requested
    ELSE /\ Len(shownText) <= max
         /\ Len(shownText) >= 1
         /\ shownText[Len(shownText)] = Ellipsis

\* C25: without permission showNotification creates nothing and returns null;
\* a notification it creates shows the requested title and body when they
\* fit, else cut to at most 40 and 90 characters on Safari and 60 and 80
\* elsewhere, ending in an ellipsis; on Safari it carries no actions.
C25_ShowNotification ==
    /\ (permission # "granted" /\ shown = {}) =>
          \A config \in Configs, userAgent \in UserAgents, throws \in BOOLEAN :
              showNotificationResult(config, userAgent, permission, throws) = None
    /\ \A n \in shown :
          /\ FitsOrCut(n.title, n.config.title, TitleLimit(n.userAgent))
          /\ FitsOrCut(n.body, n.config.body, BodyLimit(n.userAgent))
          /\ isSafari(n.userAgent) => n.actions = None

\* on Safari, a title and a body that are both too long, with actions asked for
C25_Witness ==
    \E n \in shown :
        /\ isSafari(n.userAgent)
        /\ Len(n.config.title) > 40
        /\ Len(n.config.body) > 90
        /\ n.config.actions # None
        /\ n.title # n.config.title
        /\ n.actions = None


(* -------------------- deletion and the other timers -------------------- *)
\* C26: handleDeletePlanningTask(taskId) cancels no timer of another planning
\* task: each live timer armed for a different task that is planned is live
\* and unchanged afterwards, also when the deleted task carries a handle
\* recorded in an earlier page session.
C26_DeleteSparesOtherTimers ==
    [][\A taskId \in 1..MaxIds :
        handleDeletePlanningTask(taskId)
        => \A h \in DOMAIN timers :
              (timers[h].taskId # taskId /\ HasTask(planningTasks, timers[h].taskId))
              => (h \in DOMAIN timers' /\ timers'[h] = timers[h])]_vars


(* ---------------- adds waiting for the browser's decision -------------- *)
\* the planning task of the session's first reminder request: the service
\* answered "show the custom prompt", the reminder was disabled
FirstPrompted ==
    disableReminder([id |-> 1, name |-> "a", priority |-> "low", createdAt |-> TickMs,
                     reminder |-> Reminder("1hr", None)])

\* the app after that first add and after the prompt was closed: the
\* permission is undecided and the next requests go to the browser
InitPending ==
    /\ now = TickMs
    /\ devBuild = FALSE
    /\ supported = TRUE
    /\ permission = "default"
    /\ permissionRequested = TRUE
    /\ tasks = <<>>
    /\ planningTasks = <<FirstPrompted>>
    /\ showNotificationPrompt = FALSE
    /\ pendingTaskForNotification = None
    /\ storedTasks = Some(StringifyTasks(<<>>))
    /\ storedPlanning = Some(StringifyPlanning(<<FirstPrompted>>))
    /\ timers = <<>>
    /\ nextHandle = 1
    /\ nextId = 2
    /\ pendingAdds = <<>>
    /\ shown = {}
    /\ deletedIds = {}

NextPending ==
    \/ \E name \in Names, reminder \in ReminderInputs : handleAddPlanningTask(name, reminder)
    \/ \E answer \in BrowserAnswers : resumeAddPlanningTask(answer)
    \/ \E taskId \in 1..MaxIds, p \in PriorityInputs : handleUpdatePlanningTaskPriority(taskId, p)
    \/ \E taskId \in 1..MaxIds : handleDeletePlanningTask(taskId)
    \/ advance

\* planning tasks added while the browser's permission dialog is open
SpecPending == InitPending /\ [][NextPending]_vars

\* C27: with several handleAddPlanningTask calls waiting for their decision
\* and deletes, priority changes and further adds in between, a waiting task
\* is not in the collection, each resolved decision appends its task once to
\* the collection as it then is, and no other step touches the waiting calls.
C27_InFlightAdds ==
    /\ [](/\ \A i \in 1..Len(pendingAdds) : ~HasTask(planningTasks, pendingAdds[i].id)
          /\ \A i, j \in 1..Len(planningTasks) : TaskAt(i).id = TaskAt(j).id => i = j)
    /\ [][/\ \A answer \in BrowserAnswers :
                resumeAddPlanningTask(answer)
                => /\ Len(planningTasks') = Len(planningTasks) + 1
                   /\ SubSeq(planningTasks', 1, Len(planningTasks)) = planningTasks
                   /\ planningTasks'[Len(planningTasks')].id = Head(pendingAdds).id
                   /\ planningTasks'[Len(planningTasks')].name = Head(pendingAdds).name
                   /\ pendingAdds' = Tail(pendingAdds)
          /\ (\A answer \in BrowserAnswers : ~resumeAddPlanningTask(answer))
                => \/ pendingAdds' = pendingAdds
                   \/ /\ \E name \in Names, reminder \in ReminderInputs :
                            handleAddPlanningTask(name, reminder)
                      /\ pendingAdds' = Append(pendingAdds, pendingAdds'[Len(pendingAdds')])
                      /\ pendingAdds'[Len(pendingAdds')].id = nextId
                      /\ planningTasks' = planningTasks]_vars

\* tasks 2 and 3 were both created at the first tick and both appended at the
\* second, so both calls were waiting while the clock moved; task 1 was
\* deleted; the two are in the collection, in the order of their calls
C27_Witness ==
    /\ pendingAdds = <<>>
    /\ Len(planningTasks) = 2
    /\ TaskAt(1).id = 2 /\ TaskAt(2).id = 3
    /\ TaskAt(1).createdAt = TickMs /\ TaskAt(2).createdAt = TickMs
    /\ now = 2 * TickMs
    /\ \A id \in {2, 3} : \E h \in DOMAIN timers :
            timers[h].taskId = id /\ timers[h].armedAt = 2 * TickMs
    /\ deletedIds = {1}


(* --------------- notification events in one turn ----------------------- *)
MaxBurst == 2      \* 'notificationTaskComplete' events dispatched in one turn

\* handleAddTask called count times in a row
RECURSIVE addTaskTimes(_, _, _, _, _, _)
addTaskTimes(prev, id, name, points, t, count) ==
    IF count = 0 THEN prev
    ELSE addTaskTimes(addTask(prev, id, name, points, t), id + 1, name, points, t, count - 1)

RECURSIVE handleAfterAddTaskTimes(_, _, _)
handleAfterAddTaskTimes(points, nh, count) ==
    IF count = 0 THEN nh
    ELSE handleAfterAddTaskTimes(points, handleAfterAddTask(points, nh), count - 1)

\* count 'notificationTaskComplete' events for the same notification data are
\* dispatched one after the other in one turn of the event loop.  dispatchEvent
\* runs the listener synchronously; the listener looks the task up in the
\* planningTasks of the render that registered it, and React renders and
\* re-registers the listener only after the turn, so every one of the events
\* sees the same collection.  The deletes are functional updates (the second
\* finds nothing to remove); every handleAddTask appends.
handleTaskCompleteBurst(n, count) ==
    /\ n \in shown
    /\ count \in 1..MaxBurst
    /\ IF HasTask(planningTasks, n.taskId)
       THEN /\ nextId + count - 1 <= MaxIds
            /\ nextId' = nextId + count
            /\ tasks' = addTaskTimes(tasks, nextId, n.taskName, Some(10), now, count)
            /\ storedTasks' = Some(StringifyTasks(tasks'))
            /\ CommitPlanning(FilterOut(planningTasks, n.taskId),
                              deleteTimers(planningTasks, timers, n.taskId),
                              handleAfterAddTaskTimes(Some(10), nextHandle, count))
            /\ deletedIds' = deletedIds \cup {n.taskId}
       ELSE UNCHANGED <<nextId, tasks, storedTasks, planningTasks, timers, nextHandle,
                        storedPlanning, deletedIds>>
    /\ UNCHANGED <<now, devBuild, supported, permission, permissionRequested,
                   showNotificationPrompt, pendingTaskForNotification, pendingAdds,
                   shown>>

NextEvents ==
    \/ \E name \in Names, reminder \in ReminderInputs : handleAddPlanningTask(name, reminder)
    \/ \E h \in DOMAIN timers : timerFires(h)
    \/ \E n \in shown, count \in 1..MaxBurst : handleTaskCompleteBurst(n, count)
    \/ \E n \in shown : handleSnooze(n)
    \/ \E taskId \in 1..MaxIds : handleDeletePlanningTask(taskId)
    \/ advance

\* reminders and the window events of their notifications
SpecEvents == InitNotify /\ [][NextEvents]_vars

\* C28: 'notificationTaskComplete' events for task id t move the task exactly
\* once, however many are delivered: with t planned it is removed, its
\* recorded timer cancelled and exactly one completed task with the event's
\* name and 10 points appended; with t not planned nothing changes.  A
\* 'notificationSnooze' event for an absent id or a task without reminder
\* arms no timer.
C28_MovedExactlyOnce ==
    [][\A n \in shown :
        /\ (\E count \in 1..MaxBurst : handleTaskCompleteBurst(n, count))
            => IF HasTask(planningTasks, n.taskId)
               THEN /\ planningTasks' = FilterOut(planningTasks, n.taskId)
                    /\ RecordedHandle(planningTasks, n.taskId) \notin DOMAIN timers'
                    /\ Len(tasks') = Len(tasks) + 1
                    /\ SubSeq(tasks', 1, Len(tasks)) = tasks
                    /\ tasks'[Len(tasks')].name = n.taskName
                    /\ tasks'[Len(tasks')].points = Some(10)
               ELSE planningTasks' = planningTasks /\ tasks' = tasks
        /\ (handleSnooze(n)
            /\ (~HasTask(planningTasks, n.taskId)
                \/ FindTask(planningTasks, n.taskId).reminder = None))
            => timers' = timers]_vars


(* ----------------------- today and previous days ----------------------- *)
\* how often the task with an id appears in a list
TimesListed(list, id) == Cardinality({i \in 1..Len(list) : list[i].id = id})

\* C29: tasksToday and previousTasks are disjoint, and every task with a
\* timestamp not later than now is in exactly one of them: it is listed
\* exactly once.
C29_ListedExactlyOnce ==
    LET today == tasksToday(tasks, now)
        previous == previousTasks(tasks, now)
    IN \A i \in 1..Len(tasks) :
          /\ ~(TimesListed(today, tasks[i].id) > 0 /\ TimesListed(previous, tasks[i].id) > 0)
          /\ tasks[i].timestamp <= now
                => TimesListed(today, tasks[i].id) + TimesListed(previous, tasks[i].id) = 1

\* at 00:00:00 of day 2: a task of exactly that instant is of today, the ones
\* of 23:59:59.999 and of 00:00:00 the day before are previous
C29_Witness ==
    /\ now = 2 * DayMs
    /\ Len(tasks) = 3
    /\ tasks[1].timestamp = DayMs
    /\ tasks[2].timestamp = 2 * DayMs - 1
    /\ tasks[3].timestamp = 2 * DayMs
    /\ Len(tasksToday(tasks, now)) = 1
    /\ Len(previousTasks(tasks, now)) = 2


(* ------------------- the chart against the task list ------------------- *)
\* the sum of the elements 1..k of a series
RECURSIVE SeriesSum(_, _)
SeriesSum(series, k) == IF k = 0 THEN 0 ELSE series[k] + SeriesSum(series, k - 1)

\* C30: the newest element of the 7-day series equals the task list's
\* pointsToday, and with no negative points the seven elements sum to at most
\* totalPoints.
C30_ChartAgreesWithList ==
    /\ chartData(tasks, now)[7] = totalPointsToday(tasks, now)
    /\ chartDataPushed(tasks, now)[7] = totalPointsToday(tasks, now)
    /\ (\A i \in 1..Len(tasks) : PointsOf(tasks[i]) >= 0)
          => SeriesSum(chartData(tasks, now), 7) <= totalPoints(tasks)

\* points today in the day's last millisecond, points on an earlier day of
\* the window, and points outside the window, so that the series sums to
\* less than totalPoints
C30_Witness ==
    /\ chartData(tasks, now)[7] > 0
    /\ \E i \in 1..Len(tasks) :
          tasks[i].timestamp = LastMs(DayOf(now)) /\ PointsOf(tasks[i]) > 0
    /\ \E k \in 1..6 : chartData(tasks, now)[k] > 0
    /\ SeriesSum(chartData(tasks, now), 7) < totalPoints(tasks)
    /\ totalPointsToday(tasks, now) < SeriesSum(chartData(tasks, now), 7)

====
